---------------------------- MODULE Spec2Model ----------------------------
(***************************************************************************)
(* Model of the solana-native-swaps program                                *)
(* (programs/solana-native-swaps/src/lib.rs): a hash-timelock escrow with  *)
(* the four instructions initiate, redeem, refund and instant_refund.      *)
(*                                                                         *)
(* One action is one transaction carrying one instruction.  An action      *)
(* runs the account validation that the #[derive(Accounts)] struct         *)
(* declares, then the handler, then the exit step (close = rent_sponsor),  *)
(* and the ledger commits the outcome only when the instruction returned   *)
(* Ok.  The handlers are written as the code executes them, step by step,  *)
(* on a working copy of the ledger, so that what an instruction has done   *)
(* before it fails is visible in its result and the roll-back is a step    *)
(* of the model.                                                           *)
(*                                                                         *)
(* Scaling.  Clock slots and timelocks are u64 in the program; the model   *)
(* keeps the word semantics with U64_MAX as the largest word.  Lamport     *)
(* balances are naturals: the supply of lamports is far below 2^64, so     *)
(* add_lamports cannot overflow.  A swap account is addressed by the seeds  *)
(* it is derived from.                                                     *)
(*                                                                         *)
(* Two specifications.  In Spec every party named is a wallet.  In         *)
(* SpecRecordAsRefundee the refundee may also be the address of a swap     *)
(* account (redeemer and refundee are unchecked accounts in the program,   *)
(* so any address can be named): a payment to it lands in the record that  *)
(* is there, or in a plain account of that address, on top of which a      *)
(* later initiate builds the record.                                       *)
(***************************************************************************)
EXTENDS Integers, Sequences, FiniteSets, TLC

(* ------------------------------ bounds --------------------------------- *)

\* the largest value of the model's clock and timelock words (2^64 - 1 in the
\* program)
U64_MAX == 2

(* --------------------------- input domains ----------------------------- *)

Pubkeys == {"alice", "bob"}

\* the redeemers named in the initiate instructions of the modelled runs
Redeemers == {"bob"}

Secrets == {1, 2}

Amounts == {1, 2}

Timelocks == {1, U64_MAX}

DestinationData == {"None", "Some"}

NoAccount == "NoAccount"

NoKey == <<>>

(* ---------------------------- primitives ------------------------------- *)

\* hash::hash(&secret).to_bytes(): a digest, one-to-one on the modelled secrets
Hash(secret) == 7 * secret + 3

SecretHashes == {Hash(1)}

\* Option<u64>
Some(v) == [is_some |-> TRUE, value |-> v]

None == [is_some |-> FALSE, value |-> 0]

\* fault variant of CheckedAdd: u64::wrapping_add
WrappingAdd(a, b) == Some((a + b) % (U64_MAX + 1))

\* u64::checked_add: Some(a + b), or None on overflow
CheckedAdd(a, b) == IF a + b > U64_MAX THEN None ELSE Some(a + b)

\* the seeds of the swap account, in the order of the seeds = [...] constraint
Seeds(redeemer, refundee, secret_hash, swap_amount, timelock) ==
    <<redeemer, refundee, secret_hash, swap_amount, timelock>>

\* the canonical bump of a seed list (the first one that is off the curve)
CanonicalBump(seeds) == 255 - ((seeds[4] + seeds[5]) % 2)

\* Pubkey::create_program_address: one-way in the program, one-to-one here
CreateProgramAddress(seeds, bump) == <<seeds, bump>>

\* Pubkey::find_program_address: the address and the bump that gives it
FindProgramAddress(seeds) ==
    [key  |-> CreateProgramAddress(seeds, CanonicalBump(seeds)),
     bump |-> CanonicalBump(seeds)]

\* the seeds read back from a stored SwapAccount (Redeem, Refund, InstantRefund)
StoredSeeds(data) ==
    Seeds(data.redeemer, data.refundee, data.secret_hash, data.swap_amount,
          data.timelock)

\* Rent::minimum_balance(ANCHOR_DISCRIMINATOR + SwapAccount::INIT_SPACE), scaled
RentExemptMinimum == 1

\* an address at which the modelled runs may or may not have created a record
ProbeAddress ==
    FindProgramAddress(Seeds("bob", "alice", Hash(1), 1, 1)).key

\* the pubkey ProbeAddress where it is named as a party: redeemer and refundee
\* are unchecked accounts, so the address of a swap account can be one
ProbeParty == "probe"

\* the accounts that hold lamports outside a record: the wallets, and
\* ProbeParty, the plain system account that comes into being at ProbeAddress
\* when lamports are paid to that address while no record is there
Payees == Pubkeys \cup {ProbeParty}

\* the swap-account address that the pubkey of a party is, if it is one
RecordOf(party) == IF party = ProbeParty THEN ProbeAddress ELSE NoKey

\* what every account holds before the first transaction
InitialLamports == [p \in Payees |-> IF p \in Pubkeys THEN 2 ELSE 0]


(* ------------------------------- state --------------------------------- *)

VARIABLES
    slot,       \* Clock::get()?.slot
    lamports,   \* the balance of every wallet
    swaps,      \* the swap accounts that exist: address -> [lamports, data]
    events,     \* the events the last transaction wrote to its log
    ret         \* the last step: the instruction, the swap account it was given
                \* (address, and stored data if there was any), what it returned

vars == <<slot, lamports, swaps, events, ret>>

\* the ledger an instruction works on
Ledger == [lamports |-> lamports, swaps |-> swaps, events |-> <<>>]

Ok(st) == [err |-> "Ok", st |-> st]

Err(e, st) == [err |-> e, st |-> st]

\* a SwapAccount as `init` leaves it: allocated, every field zero
ZeroedSwapAccount ==
    [expiry_slot |-> 0, bump |-> 0, redeemer |-> "", refundee |-> "",
     secret_hash |-> 0, swap_amount |-> 0, rent_sponsor |-> "", timelock |-> 0]

(* ------------------------- ledger primitives --------------------------- *)

\* fault variant of SystemTransfer: the funder is debited, the swap account is
\* not credited
SystemTransferLost(st, from, key, amount) ==
    IF st.lamports[from] < amount
    THEN Err("InsufficientFunds", st)
    ELSE Ok([st EXCEPT !.lamports[from] = @ - amount])

\* system_program::transfer from a wallet to the swap account
SystemTransfer(st, from, key, amount) ==
    IF st.lamports[from] < amount
    THEN Err("InsufficientFunds", st)
    ELSE Ok([st EXCEPT !.lamports[from] = @ - amount,
                       !.swaps[key].lamports = @ + amount])

\* fault variant of InitSwapAccount: init_if_needed, an account that exists is
\* taken as it is
InitIfNeeded(st, key, payer) ==
    IF key \in DOMAIN st.swaps
    THEN Ok(st)
    ELSE LET current == IF key = ProbeAddress THEN st.lamports[ProbeParty]
                        ELSE 0
             required == IF current >= RentExemptMinimum THEN 0
                         ELSE RentExemptMinimum - current
         IN  IF st.lamports[payer] < required
             THEN Err("InsufficientFunds", st)
             ELSE Ok([st EXCEPT
                        !.lamports = [w \in DOMAIN st.lamports |->
                                        IF w = payer
                                        THEN st.lamports[w] - required
                                        ELSE IF RecordOf(w) = key THEN 0
                                        ELSE st.lamports[w]],
                        !.swaps = [k \in DOMAIN st.swaps \cup {key} |->
                                     IF k = key
                                     THEN [lamports |-> current + required,
                                           data |-> ZeroedSwapAccount]
                                     ELSE st.swaps[k]]])

\* the `init, payer = rent_sponsor` constraint: the system program creates the
\* account, rent-exempt, paid for by the payer; it refuses an address in use
InitSwapAccount(st, key, payer) ==
    IF key \in DOMAIN st.swaps
    THEN Err("AlreadyExists", st)
    ELSE LET current == IF key = ProbeAddress THEN st.lamports[ProbeParty]
                        ELSE 0
             required == IF current >= RentExemptMinimum THEN 0
                         ELSE RentExemptMinimum - current
         IN  IF st.lamports[payer] < required
             THEN Err("InsufficientFunds", st)
             ELSE Ok([st EXCEPT
                        !.lamports = [w \in DOMAIN st.lamports |->
                                        IF w = payer
                                        THEN st.lamports[w] - required
                                        ELSE IF RecordOf(w) = key THEN 0
                                        ELSE st.lamports[w]],
                        !.swaps = [k \in DOMAIN st.swaps \cup {key} |->
                                     IF k = key
                                     THEN [lamports |-> current + required,
                                           data |-> ZeroedSwapAccount]
                                     ELSE st.swaps[k]]])

\* swap_account.sub_lamports(amount)
SubLamports(st, key, amount) ==
    IF st.swaps[key].lamports < amount
    THEN Err("ArithmeticOverflow", st)
    ELSE Ok([st EXCEPT !.swaps[key].lamports = @ - amount])

\* fault variant of AddLamports: the lamports are credited to a plain account
\* of the payee's address also when a swap account is there
AddLamportsBesideRecord(st, to, amount) ==
    Ok([st EXCEPT !.lamports[to] = @ + amount])

\* <account>.add_lamports(amount): the payee is a wallet, or a swap account
\* when its address was named as the party
AddLamports(st, to, amount) ==
    IF RecordOf(to) \in DOMAIN st.swaps
    THEN Ok([st EXCEPT !.swaps[RecordOf(to)].lamports = @ + amount])
    ELSE Ok([st EXCEPT !.lamports[to] = @ + amount])

\* fault variant of CloseSwapAccount: the close constraint is missing, the
\* account stays as the handler left it
CloseSkipped(st, key, rent_sponsor) == st

\* fault variant of CloseSwapAccount: the lamports are handed over, but the
\* account is not deleted
CloseKeepsAccount(st, key, rent_sponsor) ==
    [st EXCEPT
       !.lamports[rent_sponsor] = @ + st.swaps[key].lamports,
       !.swaps[key].lamports = 0]

\* fault variant of CloseSwapAccount: the account is deleted and its lamports
\* are handed to nobody
CloseBurnsLamports(st, key, rent_sponsor) ==
    [st EXCEPT !.swaps = [k \in DOMAIN st.swaps \ {key} |-> st.swaps[k]]]

\* the `close = rent_sponsor` constraint, run when the handler has returned Ok:
\* every lamport left in the account goes to the rent sponsor and the account
\* is deleted
CloseSwapAccount(st, key, rent_sponsor) ==
    [st EXCEPT
       !.lamports[rent_sponsor] = @ + st.swaps[key].lamports,
       !.swaps = [k \in DOMAIN st.swaps \ {key} |-> st.swaps[k]]]

\* fault variant of Emit: the event is not written
EmitDropped(st, event) == st

\* emit!(...)
Emit(st, event) == [st EXCEPT !.events = Append(@, event)]

(* ------------------------------ initiate ------------------------------- *)

\* fault variant of IsSigner: the account is declared without the Signer type
IsSignerUnchecked(signers, account) == TRUE

\* Signer<'info>: the account has signed the transaction
IsSigner(signers, account) == account \in signers

\* The accounts of Initiate, validated in Anchor's order: the Signer fields
\* (funder, rent_sponsor) are checked while the accounts are read, the init
\* constraint of swap_account runs after that.
InitiateAccounts(st, signers, funder, rent_sponsor, seeds) ==
    IF ~IsSigner(signers, funder) THEN Err("AccountNotSigner", st)
    ELSE IF ~IsSigner(signers, rent_sponsor) THEN Err("AccountNotSigner", st)
    ELSE InitSwapAccount(st, FindProgramAddress(seeds).key, rent_sponsor)

\* fault variant of initiate: the funder is stored as the rent sponsor
initiateStoresFunder(st, now, funder, rent_sponsor, redeemer, refundee, secret_hash, swap_amount, timelock, destination_data) ==
    LET seeds == Seeds(redeemer, refundee, secret_hash, swap_amount, timelock)
        pda == FindProgramAddress(seeds)
        paid == SystemTransfer(st, funder, pda.key, swap_amount)
        expiry_slot == CheckedAdd(now, timelock)
    IN  IF paid.err # "Ok" THEN paid
        ELSE IF ~expiry_slot.is_some THEN Err("Overflow", paid.st)
        ELSE Ok(Emit([paid.st EXCEPT !.swaps[pda.key].data =
                        [expiry_slot  |-> expiry_slot.value,
                         bump         |-> pda.bump,
                         rent_sponsor |-> funder,
                         refundee     |-> refundee,
                         redeemer     |-> redeemer,
                         secret_hash  |-> secret_hash,
                         swap_amount  |-> swap_amount,
                         timelock     |-> timelock]],
                     [type             |-> "Initiated",
                      redeemer         |-> redeemer,
                      refundee         |-> refundee,
                      secret_hash      |-> secret_hash,
                      swap_amount      |-> swap_amount,
                      timelock         |-> timelock,
                      destination_data |-> destination_data,
                      funder           |-> funder]))

\* the handler body of initiate, after the accounts are validated
initiate(st, now, funder, rent_sponsor, redeemer, refundee, secret_hash, swap_amount, timelock, destination_data) ==
    LET seeds == Seeds(redeemer, refundee, secret_hash, swap_amount, timelock)
        pda == FindProgramAddress(seeds)
        paid == SystemTransfer(st, funder, pda.key, swap_amount)
        expiry_slot == CheckedAdd(now, timelock)
    IN  IF paid.err # "Ok" THEN paid
        ELSE IF ~expiry_slot.is_some THEN Err("Overflow", paid.st)
        ELSE Ok(Emit([paid.st EXCEPT !.swaps[pda.key].data =
                        [expiry_slot  |-> expiry_slot.value,
                         bump         |-> pda.bump,
                         rent_sponsor |-> rent_sponsor,
                         refundee     |-> refundee,
                         redeemer     |-> redeemer,
                         secret_hash  |-> secret_hash,
                         swap_amount  |-> swap_amount,
                         timelock     |-> timelock]],
                     [type             |-> "Initiated",
                      redeemer         |-> redeemer,
                      refundee         |-> refundee,
                      secret_hash      |-> secret_hash,
                      swap_amount      |-> swap_amount,
                      timelock         |-> timelock,
                      destination_data |-> destination_data,
                      funder           |-> funder]))

\* the whole instruction: account validation, then the handler
InitiateInstruction(st, now, signers, funder, rent_sponsor, redeemer, refundee, secret_hash, swap_amount, timelock, destination_data) ==
    LET seeds == Seeds(redeemer, refundee, secret_hash, swap_amount, timelock)
        accounts == InitiateAccounts(st, signers, funder, rent_sponsor, seeds)
    IN  IF accounts.err # "Ok" THEN accounts
        ELSE initiate(accounts.st, now, funder, rent_sponsor, redeemer, refundee,
                      secret_hash, swap_amount, timelock, destination_data)

(* ------------------------ the account constraints ---------------------- *)

\* Account<SwapAccount>: the address must hold an account of this program
SwapAccountLoaded(st, key) == key \in DOMAIN st.swaps

\* seeds = [...], bump = swap_account.bump: the address re-derived from the
\* stored fields is the address that was passed
SeedsConstraint(key, data) ==
    CreateProgramAddress(StoredSeeds(data), data.bump) = key

\* address = swap_account.redeemer @ SwapError::InvalidRedeemer
RedeemerConstraint(data, redeemer) == redeemer = data.redeemer

\* address = swap_account.refundee @ SwapError::InvalidRefundee
RefundeeConstraint(data, refundee) == refundee = data.refundee

\* fault variant of RentSponsorConstraint: the address constraint is missing
RentSponsorUnchecked(data, rent_sponsor) == TRUE

\* address = swap_account.rent_sponsor @ SwapError::InvalidRentSponsor
RentSponsorConstraint(data, rent_sponsor) == rent_sponsor = data.rent_sponsor

(* ------------------------------- redeem -------------------------------- *)

\* The accounts of Redeem: swap_account is loaded, then the constraints run in
\* field order (swap_account, redeemer, rent_sponsor).
RedeemAccounts(st, key, redeemer, rent_sponsor) ==
    IF ~SwapAccountLoaded(st, key) THEN Err("NotFound", st)
    ELSE IF ~SeedsConstraint(key, st.swaps[key].data)
    THEN Err("ConstraintSeeds", st)
    ELSE IF ~RedeemerConstraint(st.swaps[key].data, redeemer)
    THEN Err("InvalidRedeemer", st)
    ELSE IF ~RentSponsorConstraint(st.swaps[key].data, rent_sponsor)
    THEN Err("InvalidRentSponsor", st)
    ELSE Ok(st)

\* fault variant of SecretMatches: the secret is compared without hashing it
SecretComparedRaw(secret, secret_hash) == secret = secret_hash

\* hash::hash(&secret).to_bytes() == secret_hash
SecretMatches(secret, secret_hash) == Hash(secret) = secret_hash

\* the handler body of redeem; redeemerAccount is ctx.accounts.redeemer
redeem(st, key, redeemerAccount, secret) ==
    LET data == st.swaps[key].data
        taken == SubLamports(st, key, data.swap_amount)
        given == AddLamports(taken.st, redeemerAccount, data.swap_amount)
    IN  IF ~SecretMatches(secret, data.secret_hash)
        THEN Err("InvalidSecret", st)
        ELSE IF taken.err # "Ok" THEN taken
        ELSE IF given.err # "Ok" THEN given
        ELSE Ok(Emit(given.st,
                     [type        |-> "Redeemed",
                      redeemer    |-> data.redeemer,
                      refundee    |-> data.refundee,
                      secret      |-> secret,
                      swap_amount |-> data.swap_amount,
                      timelock    |-> data.timelock]))

\* the whole instruction: validation, handler, and the close on exit
RedeemInstruction(st, key, redeemer, rent_sponsor, secret) ==
    LET accounts == RedeemAccounts(st, key, redeemer, rent_sponsor)
        done == redeem(accounts.st, key, redeemer, secret)
    IN  IF accounts.err # "Ok" THEN accounts
        ELSE IF done.err # "Ok" THEN done
        ELSE Ok(CloseSwapAccount(done.st, key, rent_sponsor))

(* ------------------------------- refund -------------------------------- *)

\* fault variant of RefundAccounts: rent_sponsor is declared before refundee
RefundAccountsSponsorFirst(st, key, refundee, rent_sponsor) ==
    IF ~SwapAccountLoaded(st, key) THEN Err("NotFound", st)
    ELSE IF ~SeedsConstraint(key, st.swaps[key].data)
    THEN Err("ConstraintSeeds", st)
    ELSE IF ~RentSponsorConstraint(st.swaps[key].data, rent_sponsor)
    THEN Err("InvalidRentSponsor", st)
    ELSE IF ~RefundeeConstraint(st.swaps[key].data, refundee)
    THEN Err("InvalidRefundee", st)
    ELSE Ok(st)

\* The accounts of Refund: swap_account, refundee, rent_sponsor.
RefundAccounts(st, key, refundee, rent_sponsor) ==
    IF ~SwapAccountLoaded(st, key) THEN Err("NotFound", st)
    ELSE IF ~SeedsConstraint(key, st.swaps[key].data)
    THEN Err("ConstraintSeeds", st)
    ELSE IF ~RefundeeConstraint(st.swaps[key].data, refundee)
    THEN Err("InvalidRefundee", st)
    ELSE IF ~RentSponsorConstraint(st.swaps[key].data, rent_sponsor)
    THEN Err("InvalidRentSponsor", st)
    ELSE Ok(st)

\* fault variant of PastExpiry: current_slot >= expiry_slot
AtOrPastExpiry(current_slot, expiry_slot) == current_slot >= expiry_slot

\* fault variant of PastExpiry: the comparison is written the wrong way round
ExpiryComparedReversed(current_slot, expiry_slot) == current_slot < expiry_slot

\* current_slot > expiry_slot
PastExpiry(current_slot, expiry_slot) == current_slot > expiry_slot

\* the handler body of refund; refundeeAccount is ctx.accounts.refundee
refund(st, now, key, refundeeAccount) ==
    LET data == st.swaps[key].data
        taken == SubLamports(st, key, data.swap_amount)
        given == AddLamports(taken.st, refundeeAccount, data.swap_amount)
    IN  IF ~PastExpiry(now, data.expiry_slot)
        THEN Err("RefundBeforeExpiry", st)
        ELSE IF taken.err # "Ok" THEN taken
        ELSE IF given.err # "Ok" THEN given
        ELSE Ok(Emit(given.st,
                     [type        |-> "Refunded",
                      redeemer    |-> data.redeemer,
                      refundee    |-> data.refundee,
                      secret_hash |-> data.secret_hash,
                      swap_amount |-> data.swap_amount,
                      timelock    |-> data.timelock]))

RefundInstruction(st, now, key, refundee, rent_sponsor) ==
    LET accounts == RefundAccounts(st, key, refundee, rent_sponsor)
        done == refund(accounts.st, now, key, refundee)
    IN  IF accounts.err # "Ok" THEN accounts
        ELSE IF done.err # "Ok" THEN done
        ELSE Ok(CloseSwapAccount(done.st, key, rent_sponsor))

(* --------------------------- instant_refund ---------------------------- *)

\* The accounts of InstantRefund: swap_account, refundee, redeemer (a Signer,
\* checked while the accounts are read), rent_sponsor.
InstantRefundAccounts(st, signers, key, refundee, redeemer, rent_sponsor) ==
    IF ~SwapAccountLoaded(st, key) THEN Err("NotFound", st)
    ELSE IF ~IsSigner(signers, redeemer) THEN Err("AccountNotSigner", st)
    ELSE IF ~SeedsConstraint(key, st.swaps[key].data)
    THEN Err("ConstraintSeeds", st)
    ELSE IF ~RefundeeConstraint(st.swaps[key].data, refundee)
    THEN Err("InvalidRefundee", st)
    ELSE IF ~RedeemerConstraint(st.swaps[key].data, redeemer)
    THEN Err("InvalidRedeemer", st)
    ELSE IF ~RentSponsorConstraint(st.swaps[key].data, rent_sponsor)
    THEN Err("InvalidRentSponsor", st)
    ELSE Ok(st)

\* the handler body of instant_refund
instant_refund(st, key, refundeeAccount) ==
    LET data == st.swaps[key].data
        taken == SubLamports(st, key, data.swap_amount)
        given == AddLamports(taken.st, refundeeAccount, data.swap_amount)
    IN  IF taken.err # "Ok" THEN taken
        ELSE IF given.err # "Ok" THEN given
        ELSE Ok(Emit(given.st,
                     [type        |-> "InstantRefunded",
                      redeemer    |-> data.redeemer,
                      refundee    |-> data.refundee,
                      secret_hash |-> data.secret_hash,
                      swap_amount |-> data.swap_amount,
                      timelock    |-> data.timelock]))

InstantRefundInstruction(st, signers, key, refundee, redeemer, rent_sponsor) ==
    LET accounts == InstantRefundAccounts(st, signers, key, refundee, redeemer,
                                          rent_sponsor)
        done == instant_refund(accounts.st, key, refundee)
    IN  IF accounts.err # "Ok" THEN accounts
        ELSE IF done.err # "Ok" THEN done
        ELSE Ok(CloseSwapAccount(done.st, key, rent_sponsor))

(* --------------------------- the transactions -------------------------- *)

\* fault variant of Commit: what a failed instruction did before it failed is
\* kept
CommitWithoutRollback(op, key, res) ==
    /\ ret' = [op |-> op, err |-> res.err, key |-> key,
               data |-> IF key \in DOMAIN swaps THEN swaps[key].data
                        ELSE NoAccount]
    /\ lamports' = res.st.lamports
    /\ swaps' = res.st.swaps
    /\ events' = res.st.events
    /\ UNCHANGED slot

\* The runtime runs an instruction on a working copy of the ledger and keeps
\* the copy only when the instruction returned Ok; an error or a panic leaves
\* the ledger as it was.
Commit(op, key, res) ==
    /\ ret' = [op |-> op, err |-> res.err, key |-> key,
               data |-> IF key \in DOMAIN swaps THEN swaps[key].data
                        ELSE NoAccount]
    /\ IF res.err = "Ok"
       THEN /\ lamports' = res.st.lamports
            /\ swaps' = res.st.swaps
            /\ events' = res.st.events
       ELSE /\ UNCHANGED <<lamports, swaps>>
            /\ events' = <<>>
    /\ UNCHANGED slot

\* the swap_account addresses a caller passes to redeem, refund, instant_refund
TargetAddresses == DOMAIN swaps \cup ({ret.key} \ {NoKey}) \cup {ProbeAddress}

Initiate(signers, funder, rent_sponsor, redeemer, refundee, secret_hash, swap_amount, timelock, destination_data) ==
    /\ Commit("initiate", NoKey,
              InitiateInstruction(Ledger, slot, signers, funder, rent_sponsor,
                                  redeemer, refundee, secret_hash, swap_amount,
                                  timelock, destination_data))

Redeem(key, redeemer, rent_sponsor, secret) ==
    /\ Commit("redeem", key,
              RedeemInstruction(Ledger, key, redeemer, rent_sponsor, secret))

Refund(key, refundee, rent_sponsor) ==
    /\ Commit("refund", key,
              RefundInstruction(Ledger, slot, key, refundee, rent_sponsor))

InstantRefund(signers, key, refundee, redeemer, rent_sponsor) ==
    /\ Commit("instant_refund", key,
              InstantRefundInstruction(Ledger, signers, key, refundee, redeemer,
                                       rent_sponsor))

\* the cluster moves on to the next slot
Tick ==
    /\ slot < U64_MAX
    /\ slot' = slot + 1
    /\ ret' = [op |-> "tick", err |-> "Ok", key |-> NoKey, data |-> NoAccount]
    /\ events' = <<>>
    /\ UNCHANGED <<lamports, swaps>>

NoSwaps == [k \in {} |-> NoAccount]

Init ==
    /\ slot = 0
    /\ lamports = InitialLamports
    /\ swaps = NoSwaps
    /\ events = <<>>
    /\ ret = [op |-> "none", err |-> "Ok", key |-> NoKey, data |-> NoAccount]

Next ==
    \/ \E signers \in SUBSET Pubkeys, funder \in Pubkeys, rent_sponsor \in Pubkeys,
          redeemer \in Redeemers, refundee \in Pubkeys,
          secret_hash \in SecretHashes, swap_amount \in Amounts,
          timelock \in Timelocks, destination_data \in DestinationData :
            Initiate(signers, funder, rent_sponsor, redeemer, refundee,
                     secret_hash, swap_amount, timelock, destination_data)
    \/ \E key \in TargetAddresses, redeemer \in Pubkeys, rent_sponsor \in Pubkeys,
          secret \in Secrets :
            Redeem(key, redeemer, rent_sponsor, secret)
    \/ \E key \in TargetAddresses, refundee \in Pubkeys, rent_sponsor \in Pubkeys :
            Refund(key, refundee, rent_sponsor)
    \/ \E signers \in SUBSET Pubkeys, key \in TargetAddresses,
          refundee \in Pubkeys, redeemer \in Pubkeys, rent_sponsor \in Pubkeys :
            InstantRefund(signers, key, refundee, redeemer, rent_sponsor)
    \/ Tick

Spec == Init /\ [][Next]_vars

\* The same program where the refundee named in an initiate, and the refundee
\* account passed to refund and instant_refund, may also be ProbeAddress, the
\* address of a swap account.  destination_data, which only the Initiated
\* event carries, is left at None here.
NextRecordAsRefundee ==
    \/ \E signers \in SUBSET Pubkeys, funder \in Pubkeys, rent_sponsor \in Pubkeys,
          redeemer \in Redeemers, refundee \in Payees,
          secret_hash \in SecretHashes, swap_amount \in Amounts,
          timelock \in Timelocks, destination_data \in {"None"} :
            Initiate(signers, funder, rent_sponsor, redeemer, refundee,
                     secret_hash, swap_amount, timelock, destination_data)
    \/ \E key \in TargetAddresses, redeemer \in Pubkeys, rent_sponsor \in Pubkeys,
          secret \in Secrets :
            Redeem(key, redeemer, rent_sponsor, secret)
    \/ \E key \in TargetAddresses, refundee \in Payees, rent_sponsor \in Pubkeys :
            Refund(key, refundee, rent_sponsor)
    \/ \E signers \in SUBSET Pubkeys, key \in TargetAddresses,
          refundee \in Payees, redeemer \in Pubkeys, rent_sponsor \in Pubkeys :
            InstantRefund(signers, key, refundee, redeemer, rent_sponsor)
    \/ Tick

SpecRecordAsRefundee == Init /\ [][NextRecordAsRefundee]_vars

(* ----------------------- vocabulary of the properties ------------------ *)

Completions == {"redeem", "refund", "instant_refund"}

SignerSets == SUBSET Pubkeys

RECURSIVE SumOver(_, _)
SumOver(f, S) ==
    IF S = {} THEN 0
    ELSE LET x == CHOOSE y \in S : TRUE IN f[x] + SumOver(f, S \ {x})

\* what all wallets hold together
WalletTotal(l) == SumOver(l, Pubkeys)

\* what a swap account holds beyond its storage deposit: the escrowed amount
EscrowBalance(st, key) == st.swaps[key].lamports - RentExemptMinimum

\* n if the wallet w plays the role, else nothing
Share(w, role, n) == IF w = role THEN n ELSE 0

\* the step just taken was this instruction, and it returned Ok
Succeeded(op) == ret.op = op /\ ret.err = "Ok"

\* every call of redeem, refund or instant_refund on an existing swap account
CompletionCalls ==
    [op : {"redeem"}, signers : {{}}, key : DOMAIN swaps, payee : Pubkeys,
     redeemer : Pubkeys, rent_sponsor : Pubkeys, secret : Secrets]
    \cup
    [op : {"refund"}, signers : {{}}, key : DOMAIN swaps, payee : Pubkeys,
     redeemer : {""}, rent_sponsor : Pubkeys, secret : {0}]
    \cup
    [op : {"instant_refund"}, signers : SignerSets, key : DOMAIN swaps,
     payee : Pubkeys, redeemer : Pubkeys, rent_sponsor : Pubkeys, secret : {0}]

\* what the call c returns on the ledger st at slot now
Run(st, now, c) ==
    CASE c.op = "redeem" ->
           RedeemInstruction(st, c.key, c.redeemer, c.rent_sponsor, c.secret)
      [] c.op = "refund" ->
           RefundInstruction(st, now, c.key, c.payee, c.rent_sponsor)
      [] c.op = "instant_refund" ->
           InstantRefundInstruction(st, c.signers, c.key, c.payee, c.redeemer,
                                    c.rent_sponsor)

(* -------------------------------- C1 ----------------------------------- *)

\* C1: a record is completed at most once and paid out at most once.  A
\* redeem, refund or instant_refund that succeeds finds the record, deletes
\* it in the same step and hands out exactly what the record held (the
\* escrowed swap_amount and the storage deposit); a record only comes into
\* being by a successful initiate; and a redeem, refund or instant_refund
\* aimed at an address that holds no record fails with NotFound and changes
\* no balance.
CompletedAtMostOnce ==
    [][/\ (ret'.op \in Completions /\ ret'.err = "Ok") =>
            /\ ret'.key \in DOMAIN swaps
            /\ ret'.key \notin DOMAIN swaps'
            /\ EscrowBalance(Ledger, ret'.key) = swaps[ret'.key].data.swap_amount
            /\ WalletTotal(lamports') - WalletTotal(lamports)
                 = swaps[ret'.key].data.swap_amount + RentExemptMinimum
       /\ (ret'.op \in Completions /\ ret'.key \notin DOMAIN swaps) =>
            /\ ret'.err = "NotFound"
            /\ UNCHANGED <<lamports, swaps>>
       /\ (DOMAIN swaps' \ DOMAIN swaps # {}) =>
            /\ ret'.op = "initiate"
            /\ ret'.err = "Ok"
      ]_vars

\* a redeem, refund or instant_refund failed with NotFound at an address whose
\* record an earlier completion deleted (the modelled callers aim at a record
\* that exists, at the address of the previous call, or at ProbeAddress)
LaterAttemptNotFound ==
    /\ ret.op \in Completions
    /\ ret.err = "NotFound"
    /\ ret.key # ProbeAddress

(* -------------------------------- C2 ----------------------------------- *)

\* the calls that would succeed if they were the next transaction
Winners == {c \in CompletionCalls : Run(Ledger, slot, c).err = "Ok"}

\* C2: when several calls of redeem, refund and instant_refund that would each
\* succeed alone compete for one record, whichever runs first succeeds, and
\* every other one, run after it, fails with NotFound and changes nothing.
\* The winner's payment and the deletion of the record take effect together:
\* between transactions a record that exists holds its full escrow, and the
\* winner leaves no record behind and has handed out all the record held.
RaceHasOneWinner ==
    /\ \A k \in DOMAIN swaps :
          EscrowBalance(Ledger, k) = swaps[k].data.swap_amount
    /\ LET winners == Winners
       IN  \A c1 \in winners :
              LET r1 == Run(Ledger, slot, c1)
              IN  /\ c1.key \notin DOMAIN r1.st.swaps
                  /\ WalletTotal(r1.st.lamports)
                       = WalletTotal(lamports) + swaps[c1.key].lamports
                  /\ \A c2 \in winners :
                        c2.key = c1.key =>
                          LET r2 == Run(r1.st, slot, c2)
                          IN  /\ r2.err = "NotFound"
                              /\ r2.st = r1.st

\* a redeem has won against a refund that the expired timelock had enabled too
RedeemWonAgainstRefund ==
    /\ Succeeded("redeem")
    /\ slot > ret.data.expiry_slot
    /\ ret.key \notin DOMAIN swaps

(* -------------------------------- C3 ----------------------------------- *)

\* every initiate a caller may send
InitiateCalls ==
    [signers : SignerSets, funder : Pubkeys, rent_sponsor : Pubkeys,
     redeemer : Redeemers, refundee : Pubkeys, secret_hash : SecretHashes,
     swap_amount : Amounts, timelock : Timelocks,
     destination_data : DestinationData]

\* what the initiate c returns on the ledger st at slot now
RunInitiate(st, now, c) ==
    InitiateInstruction(st, now, c.signers, c.funder, c.rent_sponsor,
                        c.redeemer, c.refundee, c.secret_hash, c.swap_amount,
                        c.timelock, c.destination_data)

\* the address derived from the five identifying fields of the initiate c
AddressOf(c) ==
    FindProgramAddress(Seeds(c.redeemer, c.refundee, c.secret_hash,
                             c.swap_amount, c.timelock)).key

\* every initiate a caller may send, the refundee a wallet or ProbeAddress
InitiateCallsAnyRefundee ==
    [signers : SignerSets, funder : Pubkeys, rent_sponsor : Pubkeys,
     redeemer : Redeemers, refundee : Payees, secret_hash : SecretHashes,
     swap_amount : Amounts, timelock : Timelocks,
     destination_data : DestinationData]

\* C3 as stated: a successful initiate leaves a record at the address
\* derived from (redeemer, refundee, secret_hash, swap_amount, timelock) that
\* holds swap_amount in escrow (on top of the storage deposit), the funder
\* has paid swap_amount (and the deposit, when it is the rent sponsor too),
\* and in every reachable state every record holds exactly its stored
\* swap_amount in escrow.
EscrowEqualsSwapAmount ==
    /\ \A k \in DOMAIN swaps :
          EscrowBalance(Ledger, k) = swaps[k].data.swap_amount
    /\ \A c \in InitiateCallsAnyRefundee :
          LET r == RunInitiate(Ledger, slot, c)
          IN  r.err = "Ok" =>
                /\ AddressOf(c) \in DOMAIN r.st.swaps
                /\ StoredSeeds(r.st.swaps[AddressOf(c)].data)
                     = Seeds(c.redeemer, c.refundee, c.secret_hash,
                             c.swap_amount, c.timelock)
                /\ EscrowBalance(r.st, AddressOf(c)) = c.swap_amount
                /\ c.funder # c.rent_sponsor =>
                     r.st.lamports[c.funder]
                       = lamports[c.funder] - c.swap_amount

\* the lamports that a plain account at the address key holds
Prefunded(key) == IF key = ProbeAddress THEN lamports[ProbeParty] ELSE 0

\* what the rent sponsor of an initiate at the address key is charged: the
\* part of the storage deposit that the address does not hold yet
DepositDue(key) ==
    IF Prefunded(key) >= RentExemptMinimum THEN 0
    ELSE RentExemptMinimum - Prefunded(key)

\* C3, amended: a successful initiate leaves a record at the address derived
\* from the five values, the funder has paid swap_amount and the record has
\* received it: the record holds what the address held before, topped up to
\* the storage deposit by the rent sponsor, plus swap_amount.  In every
\* reachable state every record holds at least its stored swap_amount in
\* escrow, and exactly that when its address is not named as a party of any
\* swap (in the modelled runs only ProbeAddress is).
EscrowAtLeastSwapAmount ==
    /\ \A k \in DOMAIN swaps :
          /\ EscrowBalance(Ledger, k) >= swaps[k].data.swap_amount
          /\ k # ProbeAddress =>
               EscrowBalance(Ledger, k) = swaps[k].data.swap_amount
    /\ \A c \in InitiateCallsAnyRefundee :
          LET r == RunInitiate(Ledger, slot, c)
          IN  r.err = "Ok" =>
                /\ AddressOf(c) \in DOMAIN r.st.swaps
                /\ StoredSeeds(r.st.swaps[AddressOf(c)].data)
                     = Seeds(c.redeemer, c.refundee, c.secret_hash,
                             c.swap_amount, c.timelock)
                /\ r.st.swaps[AddressOf(c)].lamports
                     = Prefunded(AddressOf(c)) + DepositDue(AddressOf(c))
                         + c.swap_amount
                /\ \A w \in Pubkeys :
                      r.st.lamports[w]
                        = lamports[w] - Share(w, c.funder, c.swap_amount)
                            - Share(w, c.rent_sponsor,
                                    DepositDue(AddressOf(c)))

\* an initiate has created the record at ProbeAddress, where an earlier
\* refund to that address had left more than the storage deposit: the record
\* holds more than its swap_amount in escrow
InitiateOnFundedAddress ==
    /\ Succeeded("initiate")
    /\ ProbeAddress \in DOMAIN swaps
    /\ StoredSeeds(swaps[ProbeAddress].data)
         = Seeds(events[1].redeemer, events[1].refundee,
                 events[1].secret_hash, events[1].swap_amount,
                 events[1].timelock)
    /\ EscrowBalance(Ledger, ProbeAddress) > events[1].swap_amount

(* -------------------------------- C4 ----------------------------------- *)

\* the funder and the rent sponsor of the initiate c have signed
Authorized(c) == {c.funder, c.rent_sponsor} \subseteq c.signers

\* C4: while a record exists at the address derived from (redeemer, refundee,
\* secret_hash, swap_amount, timelock), no initiate with these five values
\* succeeds, whatever funder, rent_sponsor and destination_data it brings;
\* signed by its funder and its rent sponsor it fails with AlreadyExists, also
\* when they could not pay.  A step that fails so leaves every record (fields
\* and lamports) and every wallet as they were and emits no event.
DuplicateInitiateRejected ==
    /\ [](\A c \in InitiateCalls :
            AddressOf(c) \in DOMAIN swaps =>
              LET r == RunInitiate(Ledger, slot, c)
              IN  /\ r.err # "Ok"
                  /\ Authorized(c) => r.err = "AlreadyExists")
    /\ [][(ret'.op = "initiate" /\ ret'.err = "AlreadyExists") =>
            /\ UNCHANGED <<lamports, swaps>>
            /\ swaps # NoSwaps
            /\ events' = <<>>]_vars

\* a second initiate has been refused while the record of the first exists
DuplicateRefused ==
    /\ ret.op = "initiate"
    /\ ret.err = "AlreadyExists"
    /\ swaps # NoSwaps
    /\ events = <<>>

(* -------------------------------- C5 ----------------------------------- *)

\* C5: redeem returns Ok exactly when the record exists, the digest of the
\* secret is the stored secret_hash and the redeemer and rent_sponsor passed
\* are the stored ones; neither a signature nor the slot enters.  With the
\* identities right and the secret wrong it returns InvalidSecret.  On Ok the
\* record is gone and the stored redeemer has received swap_amount (and the
\* deposit too when it is the rent sponsor).
RedeemIffSecretAndIdentities ==
    \A key \in TargetAddresses, redeemer \in Pubkeys, rent_sponsor \in Pubkeys,
       secret \in Secrets :
       LET r == RedeemInstruction(Ledger, key, redeemer, rent_sponsor, secret)
           d == swaps[key].data
       IN  /\ r.err = "Ok" <=>
                /\ key \in DOMAIN swaps
                /\ Hash(secret) = d.secret_hash
                /\ redeemer = d.redeemer
                /\ rent_sponsor = d.rent_sponsor
           /\ ( /\ key \in DOMAIN swaps
                /\ redeemer = d.redeemer
                /\ rent_sponsor = d.rent_sponsor
                /\ Hash(secret) # d.secret_hash ) => r.err = "InvalidSecret"
           /\ r.err = "Ok" =>
                /\ key \notin DOMAIN r.st.swaps
                /\ r.st.lamports[d.redeemer]
                     = lamports[d.redeemer] + d.swap_amount
                         + Share(d.redeemer, d.rent_sponsor, RentExemptMinimum)

\* a redeem has succeeded in the very slot in which the record expires
RedeemedAtExpiry ==
    /\ Succeeded("redeem")
    /\ slot = ret.data.expiry_slot

(* -------------------------------- C6 ----------------------------------- *)

InstantRefundIffRedeemerSigned ==
    /\ [](\A key \in DOMAIN swaps, signers \in SignerSets, redeemer \in Pubkeys :
            LET d == swaps[key].data
                r == InstantRefundInstruction(Ledger, signers, key, d.refundee,
                                              redeemer, d.rent_sponsor)
            IN  /\ r.err = "Ok" <=>
                     (redeemer = d.redeemer /\ d.redeemer \in signers)
                /\ r.err = "Ok" =>
                     /\ key \notin DOMAIN r.st.swaps
                     /\ r.st.lamports[d.refundee]
                          = lamports[d.refundee] + d.swap_amount
                              + Share(d.refundee, d.rent_sponsor,
                                      RentExemptMinimum))
    /\ [][(ret'.op = "instant_refund" /\ ret'.err # "Ok") =>
            UNCHANGED <<lamports, swaps>>]_vars

\* an instant_refund has succeeded before the record expired
InstantRefundBeforeExpiry ==
    /\ Succeeded("instant_refund")
    /\ slot < ret.data.expiry_slot

(* -------------------------------- C8 ----------------------------------- *)

\* the stored identity that the call c pays the escrowed amount to
StoredPayee(c) ==
    IF c.op = "redeem" THEN swaps[c.key].data.redeemer
    ELSE swaps[c.key].data.refundee

\* the account that the call c passes as the receiver of the escrowed amount
PassedPayee(c) == IF c.op = "redeem" THEN c.redeemer ELSE c.payee

\* the error that names a wrong receiver of the escrowed amount
InvalidPayee(c) ==
    IF c.op = "redeem" THEN "InvalidRedeemer" ELSE "InvalidRefundee"

\* C8: a redeem, refund or instant_refund that returns Ok changes the wallets
\* by exactly this: the stored redeemer (redeem) or the stored refundee
\* (refund, instant_refund) gains swap_amount and the stored rent_sponsor
\* gains the storage deposit; every other wallet keeps its balance.  A call
\* that passes another account than a stored one never returns Ok, and it
\* returns the error of that identity when it is the only one that differs:
\* InvalidRedeemer, InvalidRefundee (a wrong receiver; a wrong redeemer that
\* signed an instant_refund) or InvalidRentSponsor.
PayoutsGoToStoredParties ==
    \A c \in CompletionCalls :
       LET r == Run(Ledger, slot, c)
           d == swaps[c.key].data
           payeeOk == PassedPayee(c) = StoredPayee(c)
           sponsorOk == c.rent_sponsor = d.rent_sponsor
           redeemerOk == c.op = "instant_refund" => c.redeemer = d.redeemer
       IN  /\ r.err = "Ok" =>
                \A w \in Pubkeys :
                   r.st.lamports[w]
                     = lamports[w] + Share(w, StoredPayee(c), d.swap_amount)
                         + Share(w, d.rent_sponsor, RentExemptMinimum)
           /\ ~(payeeOk /\ sponsorOk /\ redeemerOk) => r.err # "Ok"
           /\ ~payeeOk /\ (c.op = "instant_refund" => c.redeemer \in c.signers)
                => r.err = InvalidPayee(c)
           /\ ( /\ c.op = "instant_refund"
                /\ payeeOk
                /\ ~redeemerOk
                /\ c.redeemer \in c.signers ) => r.err = "InvalidRedeemer"
           /\ ( /\ payeeOk
                /\ redeemerOk
                /\ ~sponsorOk
                /\ (c.op = "instant_refund" => c.redeemer \in c.signers) )
                => r.err = "InvalidRentSponsor"

\* a refund has paid the refundee and the rent sponsor of a record whose
\* redeemer is neither of them
RefundPaidOthersThanRedeemer ==
    /\ Succeeded("refund")
    /\ ret.data.redeemer \notin {ret.data.refundee, ret.data.rent_sponsor}

(* -------------------------------- C9 ----------------------------------- *)

CanPay(c) ==
    /\ lamports[c.rent_sponsor] >= RentExemptMinimum
    /\ lamports[c.funder] - Share(c.funder, c.rent_sponsor, RentExemptMinimum)
         >= c.swap_amount

\* C10: an initiate whose slot + timelock exceeds the largest word never
\* returns Ok; signed, at a free address and paid for, it returns Overflow, at
\* a point where its working copy of the ledger already holds the transfer of
\* swap_amount, and the step leaves no record at the derived address and every
\* wallet as it was.  An initiate that returns Ok stores slot + timelock as the
\* expiry, so no stored expiry is a wrapped or a saturated sum.
OverflowAbortsInitiate ==
    /\ [](\A c \in InitiateCalls :
            LET r == RunInitiate(Ledger, slot, c)
            IN  /\ slot + c.timelock > U64_MAX =>
                     /\ r.err # "Ok"
                     /\ ( /\ Authorized(c)
                          /\ AddressOf(c) \notin DOMAIN swaps
                          /\ CanPay(c) ) =>
                            /\ r.err = "Overflow"
                            /\ r.st.swaps[AddressOf(c)].lamports
                                 = RentExemptMinimum + c.swap_amount
                /\ r.err = "Ok" =>
                     r.st.swaps[AddressOf(c)].data.expiry_slot
                       = slot + c.timelock)
    /\ [](\A k \in DOMAIN swaps :
            /\ swaps[k].data.expiry_slot <= U64_MAX
            /\ swaps[k].data.expiry_slot >= swaps[k].data.timelock
            /\ swaps[k].data.expiry_slot - swaps[k].data.timelock <= slot)
    /\ [][(ret'.op = "initiate" /\ ret'.err = "Overflow") =>
            /\ UNCHANGED <<lamports, swaps>>
            /\ events' = <<>>]_vars

\* an initiate has failed with Overflow
InitiateOverflowed ==
    /\ ret.op = "initiate"
    /\ ret.err = "Overflow"
    /\ slot > 0

(* -------------------------------- C11 ---------------------------------- *)

\* the SwapAccount that the initiate c, run at slot now, is to leave behind
WrittenBy(c, now) ==
    [expiry_slot  |-> now + c.timelock,
     bump         |-> FindProgramAddress(Seeds(c.redeemer, c.refundee,
                                               c.secret_hash, c.swap_amount,
                                               c.timelock)).bump,
     rent_sponsor |-> c.rent_sponsor,
     refundee     |-> c.refundee,
     redeemer     |-> c.redeemer,
     secret_hash  |-> c.secret_hash,
     swap_amount  |-> c.swap_amount,
     timelock     |-> c.timelock]

\* the initiate that emitted the event e with the rent sponsor rs, both signing
CallOf(e, rs) ==
    [signers |-> {e.funder, rs}, funder |-> e.funder, rent_sponsor |-> rs,
     redeemer |-> e.redeemer, refundee |-> e.refundee,
     secret_hash |-> e.secret_hash, swap_amount |-> e.swap_amount,
     timelock |-> e.timelock, destination_data |-> e.destination_data]

\* C11: the fields of a record are the values its initiate was given, and
\* they stay.  An initiate that returns Ok has stored its redeemer, refundee,
\* secret_hash, swap_amount, timelock and rent_sponsor, and slot + timelock as
\* the expiry; a record only comes into being by such a step, with exactly
\* the fields that initiate writes at the slot of the step; and no step
\* (redeem, refund or instant_refund, returning Ok or not, another initiate,
\* or the clock moving on) changes a field of a record that exists before and
\* after it.
FieldsAreThoseOfInitiate ==
    /\ [](\A c \in InitiateCalls :
            LET r == RunInitiate(Ledger, slot, c)
            IN  r.err = "Ok" =>
                  r.st.swaps[AddressOf(c)].data = WrittenBy(c, slot))
    /\ [][\A k \in DOMAIN swaps' \ DOMAIN swaps :
            /\ ret'.op = "initiate"
            /\ Len(events') = 1
            /\ \E rs \in Pubkeys :
                  /\ AddressOf(CallOf(events'[1], rs)) = k
                  /\ swaps'[k].data = WrittenBy(CallOf(events'[1], rs), slot)
                  /\ swaps' = RunInitiate(Ledger, slot,
                                          CallOf(events'[1], rs)).st.swaps]_vars
    /\ [][\A k \in DOMAIN swaps \cap DOMAIN swaps' :
            swaps'[k].data = swaps[k].data]_vars

\* a call on a record created in an earlier slot has failed, and the record
\* still has the fields the call found
FieldsKeptAfterFailedCall ==
    /\ ret.op \in Completions
    /\ ret.err \notin {"Ok", "NotFound"}
    /\ ret.key \in DOMAIN swaps
    /\ swaps[ret.key].data = ret.data
    /\ slot > ret.data.expiry_slot - ret.data.timelock

(* -------------------------------- C12 ---------------------------------- *)

\* the call c brings what lets the escrow go before the expiry: a pre-image
\* of the stored secret_hash (redeem), or the signature of the stored
\* redeemer (instant_refund)
Entitled(c) ==
    \/ c.op = "redeem" /\ Hash(c.secret) = swaps[c.key].data.secret_hash
    \/ /\ c.op = "instant_refund"
       /\ c.redeemer = swaps[c.key].data.redeemer
       /\ c.redeemer \in c.signers

CompletedIsTerminal ==
    [][(ret.op \in Completions /\ ret.err = "Ok") =>
         ret.key \notin DOMAIN swaps']_vars

\* C13, amended: a record is created by one initiate that returns Ok and
\* deleted by the first redeem, refund or instant_refund that returns Ok, and
\* by no other step; a completion aimed at the address right after that
\* fails with NotFound.  The address is then free again: at an address that
\* holds no record, whether one was completed there before or not, an
\* initiate returns Ok exactly when funder and rent sponsor have signed and
\* can pay and slot + timelock does not overflow, and it leaves a record
\* there.
RecordLivesOncePerInitiate ==
    /\ [](\A c \in InitiateCalls :
            LET r == RunInitiate(Ledger, slot, c)
            IN  AddressOf(c) \notin DOMAIN swaps =>
                  /\ r.err = "Ok" <=>
                       /\ Authorized(c)
                       /\ CanPay(c)
                       /\ slot + c.timelock <= U64_MAX
                  /\ r.err = "Ok" =>
                       /\ AddressOf(c) \in DOMAIN r.st.swaps
                       /\ r.st.swaps[AddressOf(c)].data = WrittenBy(c, slot))
    /\ [][(ret'.op \in Completions /\ ret'.err = "Ok") =>
            /\ ret'.key \in DOMAIN swaps
            /\ ret'.key \notin DOMAIN swaps']_vars
    /\ [][\A k \in DOMAIN swaps \ DOMAIN swaps' :
            /\ ret'.op \in Completions
            /\ ret'.err = "Ok"
            /\ ret'.key = k]_vars
    /\ [][\A k \in DOMAIN swaps' \ DOMAIN swaps :
            /\ ret'.op = "initiate"
            /\ ret'.err = "Ok"]_vars
    /\ [][( /\ ret.op \in Completions
            /\ ret.err = "Ok"
            /\ ret'.op \in Completions
            /\ ret'.key = ret.key ) => ret'.err = "NotFound"]_vars

\* a completion has just deleted the record at an address, and an initiate
\* with the five values of that address would now create a record there
AddressFreeAfterCompletion ==
    /\ ret.op \in Completions
    /\ ret.err = "Ok"
    /\ ret.key \notin DOMAIN swaps
    /\ \E c \in InitiateCalls :
          /\ AddressOf(c) = ret.key
          /\ RunInitiate(Ledger, slot, c).err = "Ok"
          /\ ret.key \in DOMAIN RunInitiate(Ledger, slot, c).st.swaps

(* -------------------------------- C14 ---------------------------------- *)

Instructions == {"initiate"} \cup Completions

\* the event struct of each instruction
EventType(op) ==
    CASE op = "initiate" -> "Initiated"
      [] op = "redeem" -> "Redeemed"
      [] op = "refund" -> "Refunded"
      [] op = "instant_refund" -> "InstantRefunded"

\* the Initiated event of the initiate c
InitiatedOf(c) ==
    [type |-> "Initiated", redeemer |-> c.redeemer, refundee |-> c.refundee,
     secret_hash |-> c.secret_hash, swap_amount |-> c.swap_amount,
     timelock |-> c.timelock, destination_data |-> c.destination_data,
     funder |-> c.funder]

\* the event of the completion call c on the record with the fields d:
\* Redeemed has the field secret and no secret_hash, the other two have
\* secret_hash and no secret
CompletionEventOf(c, d) ==
    IF c.op = "redeem"
    THEN [type |-> "Redeemed", redeemer |-> d.redeemer,
          refundee |-> d.refundee, secret |-> c.secret,
          swap_amount |-> d.swap_amount, timelock |-> d.timelock]
    ELSE [type |-> EventType(c.op), redeemer |-> d.redeemer,
          refundee |-> d.refundee, secret_hash |-> d.secret_hash,
          swap_amount |-> d.swap_amount, timelock |-> d.timelock]

\* the event e is about the swap with the fields d
SameSwap(e, d) ==
    /\ e.redeemer = d.redeemer
    /\ e.refundee = d.refundee
    /\ e.swap_amount = d.swap_amount
    /\ e.timelock = d.timelock

\* C14: an instruction that returns Ok has emitted exactly one event, of its
\* own kind, and a transaction that fails leaves no event.  Initiated carries
\* the five identifying fields, destination_data and the funder; Redeemed
\* carries the secret that was accepted, a pre-image of the stored hash, and
\* no secret_hash; Refunded and InstantRefunded carry the stored secret_hash
\* and no secret.  Histories: a completion event is emitted only by a step
\* that finds a record with the event's redeemer, refundee, swap_amount and
\* timelock and deletes it, and a record comes into being only by a step
\* that emits an Initiated event with the record's fields, one record per
\* event; so every completion event follows the Initiated event of its
\* record, and at most one completion event follows each Initiated event for
\* the record it created.
OneEventPerSuccess ==
    /\ [](\A c \in InitiateCalls :
            LET r == RunInitiate(Ledger, slot, c)
            IN  r.err = "Ok" => r.st.events = <<InitiatedOf(c)>>)
    /\ [](\A c \in CompletionCalls :
            LET r == Run(Ledger, slot, c)
                d == swaps[c.key].data
            IN  r.err = "Ok" =>
                  /\ r.st.events = <<CompletionEventOf(c, d)>>
                  /\ c.op = "redeem" => Hash(c.secret) = d.secret_hash)
    /\ [][ret'.op \in Instructions =>
            IF ret'.err = "Ok"
            THEN /\ Len(events') = 1
                 /\ events'[1].type = EventType(ret'.op)
            ELSE events' = <<>>]_vars
    /\ [][(ret'.op \in Completions /\ ret'.err = "Ok") =>
            /\ ret'.key \in DOMAIN swaps
            /\ ret'.key \notin DOMAIN swaps'
            /\ SameSwap(events'[1], swaps[ret'.key].data)]_vars
    /\ [][\A k \in DOMAIN swaps' \ DOMAIN swaps :
            /\ Len(events') = 1
            /\ events'[1].type = "Initiated"
            /\ SameSwap(events'[1], swaps'[k].data)
            /\ events'[1].secret_hash = swaps'[k].data.secret_hash]_vars
    /\ [][(ret'.op = "initiate" /\ ret'.err = "Ok") =>
            Cardinality(DOMAIN swaps' \ DOMAIN swaps) = 1]_vars

\* a redeem has emitted one Redeemed event that reveals the secret and has
\* no field secret_hash
RedeemedRevealsSecret ==
    /\ Succeeded("redeem")
    /\ Len(events) = 1
    /\ events[1].type = "Redeemed"
    /\ Hash(events[1].secret) = ret.data.secret_hash
    /\ "secret_hash" \notin DOMAIN events[1]
    /\ SameSwap(events[1], ret.data)

(* -------------------------------- C15 ---------------------------------- *)

\* the five identifying fields that the modelled initiates name
SwapTuples ==
    {Seeds(redeemer, refundee, secret_hash, swap_amount, timelock) :
       redeemer \in Redeemers, refundee \in Payees,
       secret_hash \in SecretHashes, swap_amount \in Amounts,
       timelock \in Timelocks}

\* every step leaves the record at k, which it is not aimed at, with its
\* fields, and with its lamports but for the amount n
OtherRecordKept(k, n) ==
    /\ k \in DOMAIN swaps'
    /\ swaps'[k].data = swaps[k].data
    /\ swaps'[k].lamports = swaps[k].lamports + n

\* C15 as stated: a step of initiate, redeem, refund or instant_refund,
\* returning Ok or an error, leaves every record other than the one it is
\* aimed at as it was: existing, with the same fields and the same lamports.
OtherRecordsUntouched ==
    [][\A k \in DOMAIN swaps :
         (ret'.op \in Instructions /\ ret'.key # k) => OtherRecordKept(k, 0)]_vars

\* what the step pays into the record at k as the stored payee of the record
\* it completes
PaidInto(k) ==
    IF /\ ret'.op \in Completions
       /\ ret'.err = "Ok"
       /\ RecordOf(IF ret'.op = "redeem"
                   THEN swaps[ret'.key].data.redeemer
                   ELSE swaps[ret'.key].data.refundee) = k
    THEN swaps[ret'.key].data.swap_amount
    ELSE 0

\* C15, amended: different five-tuples give different addresses, and a step
\* of initiate, redeem, refund or instant_refund, returning Ok or an error,
\* leaves every record other than the one it is aimed at in existence and
\* with its stored fields, and with its lamports too, except that a
\* completion that returns Ok for a record whose stored payee is the address
\* of another record adds its swap_amount to that record's lamports.
OtherRecordsKeptButForPayee ==
    /\ [](\A t1 \in SwapTuples, t2 \in SwapTuples :
            t1 # t2 => FindProgramAddress(t1).key # FindProgramAddress(t2).key)
    /\ [][\A k \in DOMAIN swaps :
            (ret'.op \in Instructions /\ ret'.key # k) =>
               OtherRecordKept(k, PaidInto(k))]_vars

\* a refund or instant_refund of a record whose refundee is the address of a
\* second record has paid the amount into that record, which is still Active
RefundPaidIntoOtherRecord ==
    /\ ret.op \in {"refund", "instant_refund"}
    /\ ret.err = "Ok"
    /\ RecordOf(ret.data.refundee) \in DOMAIN swaps
    /\ EscrowBalance(Ledger, RecordOf(ret.data.refundee))
         = swaps[RecordOf(ret.data.refundee)].data.swap_amount
             + ret.data.swap_amount

(* -------------------------------- C16 ---------------------------------- *)

\* all lamports of the ledger: those of the wallets and plain accounts and
\* those of the records
LedgerTotal(l, s) ==
    SumOver(l, DOMAIN l) + SumOver([k \in DOMAIN s |-> s[k].lamports], DOMAIN s)

\* C16: value is conserved.  In every reachable state, after any sequence of
\* initiate, redeem, refund and instant_refund transactions that returned Ok
\* or failed, the lamports of all parties and of all records add up to what
\* the parties held at the start; this includes swaps in which one identity
\* holds several roles and swaps that pay into the address of a record.
ValueConserved ==
    LedgerTotal(lamports, swaps)
      = LedgerTotal(InitialLamports, NoSwaps)

\* a swap whose redeemer, refundee and rent sponsor are one identity has been
\* completed
CompletedWithRolesCoinciding ==
    /\ ret.op \in Completions
    /\ ret.err = "Ok"
    /\ ret.data.redeemer = ret.data.refundee
    /\ ret.data.refundee = ret.data.rent_sponsor
    /\ lamports[ret.data.refundee] >= ret.data.swap_amount + RentExemptMinimum

(* -------------------------------- C17 ---------------------------------- *)

\* the clock values from the present slot on
SlotsAhead == slot .. U64_MAX

\* the ledger after the step
LedgerAfter == [lamports |-> lamports', swaps |-> swaps', events |-> <<>>]

\* a refund of the record at key, by the stored refundee and rent sponsor,
\* returns Ok on the ledger st at slot now
RefundEnabled(st, now, key) ==
    RefundInstruction(st, now, key, st.swaps[key].data.refundee,
                      st.swaps[key].data.rent_sponsor).err = "Ok"

\* C17: the refund always becomes available.  For every record that exists
\* there is a value of the clock, now or later, at which refund returns Ok,
\* so that a clock that keeps advancing reaches a slot where the record can
\* be refunded; and a step that leaves a record in place leaves a refund
\* that was enabled for it enabled.
RefundBecomesAvailable ==
    /\ [](\A key \in DOMAIN swaps :
            \E now \in SlotsAhead : RefundEnabled(Ledger, now, key))
    /\ [][\A key \in DOMAIN swaps \cap DOMAIN swaps' :
            RefundEnabled(Ledger, slot, key) =>
              RefundEnabled(LedgerAfter, slot', key)]_vars

(* -------------------------------- C18 ---------------------------------- *)

\* every call of redeem, refund or instant_refund at the address key
CallsAt(key) ==
    [op : {"redeem"}, signers : {{}}, key : {key}, payee : Pubkeys,
     redeemer : Pubkeys, rent_sponsor : Pubkeys, secret : Secrets]
    \cup
    [op : {"refund"}, signers : {{}}, key : {key}, payee : Pubkeys,
     redeemer : {""}, rent_sponsor : Pubkeys, secret : {0}]
    \cup
    [op : {"instant_refund"}, signers : SignerSets, key : {key},
     payee : Pubkeys, redeemer : Pubkeys, rent_sponsor : Pubkeys, secret : {0}]

\* every value of the clock
Slots == 0 .. U64_MAX

\* C18: the order of the errors.  A call at an address that holds no record
\* returns NotFound, whatever else is wrong with it.  On a record that
\* exists, at every slot and with every secret: a redeem that passes a wrong
\* redeemer returns InvalidRedeemer (not InvalidSecret, not
\* InvalidRentSponsor); a refund that passes a wrong refundee returns
\* InvalidRefundee (not RefundBeforeExpiry, not InvalidRentSponsor); with the
\* payee right and the rent sponsor wrong both return InvalidRentSponsor
\* before their own check; and an instant_refund whose redeemer account has
\* signed returns InvalidRefundee for a wrong refundee, else InvalidRedeemer
\* for a wrong redeemer, else InvalidRentSponsor for a wrong rent sponsor.
ErrorsInFixedOrder ==
    /\ \A key \in TargetAddresses \ DOMAIN swaps :
          \A c \in CallsAt(key), now \in Slots :
             Run(Ledger, now, c).err = "NotFound"
    /\ \A c \in CompletionCalls, now \in Slots :
          LET r == Run(Ledger, now, c)
              d == swaps[c.key].data
              signed == c.op = "instant_refund" => c.redeemer \in c.signers
              payeeOk == PassedPayee(c) = StoredPayee(c)
              redeemerOk == c.op = "instant_refund" => c.redeemer = d.redeemer
          IN  signed =>
                /\ ~payeeOk => r.err = InvalidPayee(c)
                /\ (payeeOk /\ ~redeemerOk) => r.err = "InvalidRedeemer"
                /\ (payeeOk /\ redeemerOk /\ c.rent_sponsor # d.rent_sponsor)
                     => r.err = "InvalidRentSponsor"

\* before the expiry, a refund that passed a wrong refundee has failed with
\* InvalidRefundee, not with RefundBeforeExpiry
WrongRefundeeBeforeExpiry ==
    /\ ret.op = "refund"
    /\ ret.err = "InvalidRefundee"
    /\ ret.key \in DOMAIN swaps
    /\ slot <= swaps[ret.key].data.expiry_slot

=============================================================================
